---- MODULE Spec2Model ----
(***************************************************************************)
(* A model of the node-mlx native bridge (native/src/binding.cc): the      *)
(* process-wide library handle and the six function pointers, the seven    *)
(* exported operations, the dynamic loader they talk to and the native     *)
(* strings that cross the boundary.                                        *)
(***************************************************************************)
EXTENDS Integers, Sequences, FiniteSets, TLC

VARIABLES
  dylib_handle,   \* binding.cc:7   0 is nullptr, i > 0 is the handle of image i
  fn,             \* binding.cc:16-21  symbol name -> 0 (nullptr) or the image the pointer points into
  loaded,         \* the dynamic loader: image id -> exported symbols, for the images now mapped
  nOpens,         \* number of successful dlopen calls so far (the next image id is nOpens + 1)
  allocs,         \* number of non-null strings the native side has handed to the bridge
  frees,          \* number of node_mlx_free_string calls that were carried out
  apple_arm64,    \* binding.cc:176  the build target: defined(__APPLE__) && defined(__arm64__)
  crashed,        \* the process died inside a call (undefined behaviour took the fatal branch)
  last,           \* what the last bridge call did: its arguments, outcome and native calls
  thread,         \* for each thread inside or between Initialize calls: the statement it is at
  seen            \* history of the concurrent Initialize calls: what has happened so far

vars ==
  <<dylib_handle, fn, loaded, nOpens, allocs, frees, apple_arm64, crashed, last, thread, seen>>

----------------------------------------------------------------------------
(* Bounds of the model *)

\* number of successful dlopen calls explored
MaxOpens == 2
\* number of native strings handed out explored
MaxStrings == 2
\* number of Initialize calls each thread makes when calls are not serialized
MaxRaceCalls == 2

----------------------------------------------------------------------------
(* The six entry points, by their exact symbol names *)

nullptr == 0

SymLoadModel == "node_mlx_load_model"
SymUnloadModel == "node_mlx_unload_model"
SymGenerate == "node_mlx_generate"
SymFreeString == "node_mlx_free_string"
SymIsAvailable == "node_mlx_is_available"
SymVersion == "node_mlx_version"

Symbols ==
  {SymLoadModel, SymUnloadModel, SymGenerate, SymFreeString, SymIsAvailable, SymVersion}

\* a variant that also insists on the unload entry point
MandatorySeq_withUnload ==
  <<"node_mlx_load_model", "node_mlx_unload_model", "node_mlx_generate",
    "node_mlx_free_string">>

\* the three entry points Initialize insists on, in the order it tests them
MandatorySeq == <<SymLoadModel, SymGenerate, SymFreeString>>

Mandatory == {MandatorySeq[k] : k \in 1..Len(MandatorySeq)}

----------------------------------------------------------------------------
(* The file system seen by dlopen: which paths hold a loadable library, and *)
(* which symbols each one exports.                                          *)

Dylibs ==
  [ full       |-> Symbols,
    mandatory  |-> Mandatory,
    no_unload  |-> Symbols \ {SymUnloadModel},
    no_load    |-> Symbols \ {SymLoadModel},
    no_generate |-> Symbols \ {SymGenerate},
    no_free    |-> Symbols \ {SymFreeString},
    only_load  |-> {SymLoadModel},
    only_generate |-> {SymGenerate, SymUnloadModel},
    only_free  |-> {SymFreeString, SymVersion},
    optional   |-> Symbols \ Mandatory,
    empty      |-> {} ]

DylibPaths == DOMAIN Dylibs

\* a path dlopen cannot open
NoSuchPath == "missing"

----------------------------------------------------------------------------
(* Host (JavaScript) values *)

Undefined == [type |-> "undefined"]

JSString(s) == [type |-> "string", str |-> s]

\* the finite number  wraps * 2^32 + int + frac/10, with int an int32 and frac in 0..9
JSNumber(w, i, f) == [type |-> "number", wraps |-> w, int |-> i, frac |-> f]

JSInt(i) == JSNumber(0, i, 0)

JSObject(props) == [type |-> "object", props |-> props]

IsString(v) == v.type = "string"
IsNumber(v) == v.type = "number"
IsObject(v) == v.type = "object"

MinInt32 == -2147483647 - 1
MaxInt32 == 2147483647

\* Napi::Number::Int32Value: truncation toward zero, then the low 32 bits
Int32Value(v) ==
  LET negative == v.wraps < 0 \/ (v.wraps = 0 /\ v.int < 0)
  IN  IF negative /\ v.frac > 0
      THEN (IF v.int = MaxInt32 THEN MinInt32 ELSE v.int + 1)
      ELSE v.int

\* a binary32 value, named by the decimal it is the nearest float to
Float32(i, f) == [int |-> i, frac |-> f]

\* Napi::Number::FloatValue: the double narrowed to binary32 (magnitudes below 2^24)
FloatValue(v) == Float32(v.int, v.frac)

\* the binary32 value equals the double it came from: only halves and whole numbers here
ExactInFloat32(v) == v.wraps = 0 /\ v.frac \in {0, 5}

----------------------------------------------------------------------------
(* Outcomes of one bridge call as the host sees it *)

\* a normal return
Returned(v, calls) ==
  [outcome |-> "ok", error |-> "none", detail |-> <<>>, value |-> v, calls |-> calls]

\* a pending JavaScript exception (ThrowAsJavaScriptException) and the early return
Thrown(kind, detail, calls) ==
  [outcome |-> "throw", error |-> kind, detail |-> detail, value |-> Undefined,
   calls |-> calls]

\* the process died inside the call
Died(calls) ==
  [outcome |-> "crash", error |-> "none", detail |-> <<>>, value |-> Undefined,
   calls |-> calls]

----------------------------------------------------------------------------
(* Calls through the function pointers *)

\* the pointer is non-null but the image it points into has been closed
Dangling(sym) == fn[sym] # nullptr /\ fn[sym] \notin DOMAIN loaded

\* calling through a dangling pointer is undefined behaviour: the closed image is gone
\* and the process dies ("crash"), or its code is still in memory and runs ("runs")
UBOutcomes == IF \E s \in Symbols : Dangling(s) THEN {"crash", "runs"} ELSE {"runs"}

\* the record of one call through fn[sym]; ran: the callee was entered and returned
NativeCall(sym, args, ret, ran) ==
  [ev |-> "call", sym |-> sym, image |-> fn[sym], mapped |-> fn[sym] \in DOMAIN loaded,
   args |-> args, ret |-> ret, ran |-> ran]

\* a call through a dangling pointer runs only if the undefined behaviour lets it
Runs(sym, ub) == fn[sym] \in DOMAIN loaded \/ (Dangling(sym) /\ ub = "runs")

\* the bridge reading the bytes behind a native string pointer
ReadString(p) == [ev |-> "read", ptr |-> p.ptr]

\* a char* returned by the native side: null, or a fresh pointer to text
NullString == [ptr |-> 0, text |-> ""]

NativeString(t) == [ptr |-> allocs + 1, text |-> t]

\* texts the native side may return from node_mlx_generate
GenerateTexts == {"{\"success\":true}"}

\* texts the native side may return from node_mlx_version
VersionTexts == {"1.2.3"}

\* char* results the native side can produce now (it hands out at most MaxStrings)
StringResults(texts) ==
  {NullString} \cup (IF allocs < MaxStrings THEN {NativeString(t) : t \in texts} ELSE {})

\* std::string copy(p); fn_free_string(p); return copy;
CopyAndFree(p, before, ub) ==
  LET copied == before \o <<ReadString(p)>>
      free == NativeCall(SymFreeString, <<p.ptr>>, "void", Runs(SymFreeString, ub))
  IN  IF free.ran THEN Returned(JSString(p.text), copied \o <<free>>)
      ELSE Died(copied \o <<free>>)

\* the positions in an outcome's log of the calls made through sym
CallsOf(r, sym) ==
  {k \in 1..Len(r.calls) : r.calls[k].ev = "call" /\ r.calls[k].sym = sym}

\* node_mlx_free_string calls carried out during one outcome
FreesIn(r) == Cardinality({k \in CallsOf(r, SymFreeString) : r.calls[k].ran})

\* non-null strings the native side returned during one outcome
AllocsIn(r) ==
  Cardinality({k \in CallsOf(r, SymGenerate) \cup CallsOf(r, SymVersion) :
     r.calls[k].ran /\ r.calls[k].ret # NullString})

----------------------------------------------------------------------------
(* Initialize, binding.cc:24-69 *)

\* a variant that reopens on every call
AlreadyLoaded_reopens == FALSE

\* a variant that tests a function pointer, as the other guards do, not the handle
AlreadyLoaded_testsUnloadPointer == fn[SymUnloadModel] # nullptr

\* if (dylib_handle) return true;
AlreadyLoaded == dylib_handle # nullptr

\* dlsym(handle, name) on a freshly opened image with these exports
dlsym(image, exports, sym) == IF sym \in exports THEN image ELSE nullptr

\* a variant that reports only the first missing name
MissingNames_firstOnly(table) ==
  LET all == SelectSeq(MandatorySeq, LAMBDA s : table[s] = nullptr)
  IN  IF all = <<>> THEN <<>> ELSE <<all[1]>>

\* the names appended to `missing`, in the order of the three tests
MissingNames(table) ==
  SelectSeq(MandatorySeq, LAMBDA s : table[s] = nullptr)

\* what the six lookups leave in the pointers
ResolvedTable(image, exports) == [s \in Symbols |-> dlsym(image, exports, s)]

\* the outcome of Initialize(a0) and the state it leaves
InitializeCall(a0) ==
  LET keep == [handle |-> dylib_handle, fn |-> fn, loaded |-> loaded, opens |-> nOpens]
  IN
  IF AlreadyLoaded THEN [r |-> Returned(TRUE, <<>>)] @@ keep
  ELSE IF ~IsString(a0)
  THEN [r |-> Thrown("InvalidArgument", <<"dylibPath argument required">>, <<>>)] @@ keep
  ELSE IF a0.str \notin DylibPaths
  THEN [r |-> Thrown("LoadFailure", <<"Failed to load dylib at ", a0.str>>,
                     <<[ev |-> "dlopen", path |-> a0.str, image |-> nullptr]>>),
        handle |-> nullptr, fn |-> fn, loaded |-> loaded, opens |-> nOpens]
  ELSE
    LET image == nOpens + 1
        exports == Dylibs[a0.str]
        table == ResolvedTable(image, exports)
        opened == [ev |-> "dlopen", path |-> a0.str, image |-> image]
        missing == MissingNames(table)
    IN  IF missing # <<>>
        THEN [r |-> Thrown("MissingSymbols", <<"Failed to load functions: ">> \o missing,
                           <<opened, [ev |-> "dlclose", image |-> image]>>),
              handle |-> nullptr, fn |-> table, loaded |-> loaded, opens |-> image]
        ELSE [r |-> Returned(TRUE, <<opened>>),
              handle |-> image, fn |-> table,
              loaded |-> (image :> exports) @@ loaded, opens |-> image]

----------------------------------------------------------------------------
(* LoadModel, binding.cc:72-94 *)

\* a variant that takes only the documented -1 for a failure
LoadRejected_onlyMinusOne(handle) == handle = -1

\* if (handle < 0) throw
LoadRejected(handle) == handle < 0

LoadModelCall(info, ret, ub) ==
  IF fn[SymLoadModel] = nullptr
  THEN Thrown("NotInitialized", <<"Library not initialized. Call initialize() first.">>, <<>>)
  ELSE IF Len(info) < 1 \/ ~IsString(info[1])
  THEN Thrown("InvalidArgument", <<"Model ID string required">>, <<>>)
  ELSE
    LET modelId == info[1].str
        call == NativeCall(SymLoadModel, <<modelId>>, ret, Runs(SymLoadModel, ub))
    IN  IF ~call.ran THEN Died(<<call>>)
        ELSE IF LoadRejected(ret)
        THEN Thrown("ModelLoadRejected", <<"Failed to load model: ", modelId>>, <<call>>)
        ELSE Returned(JSInt(ret), <<call>>)

----------------------------------------------------------------------------
(* UnloadModel, binding.cc:97-114 *)

\* a variant that drops handles that cannot be valid instead of forwarding them
UnloadModelCall_skipsNegative(info, ub) ==
  IF fn[SymUnloadModel] = nullptr
  THEN Thrown("NotInitialized", <<"Library not initialized">>, <<>>)
  ELSE IF Len(info) < 1 \/ ~IsNumber(info[1])
  THEN Thrown("InvalidArgument", <<"Model handle number required">>, <<>>)
  ELSE IF Int32Value(info[1]) < 0 THEN Returned(Undefined, <<>>)
  ELSE
    LET call == NativeCall(SymUnloadModel, <<Int32Value(info[1])>>, "void",
                           Runs(SymUnloadModel, ub))
    IN  IF ~call.ran THEN Died(<<call>>) ELSE Returned(Undefined, <<call>>)

UnloadModelCall(info, ub) ==
  IF fn[SymUnloadModel] = nullptr
  THEN Thrown("NotInitialized", <<"Library not initialized">>, <<>>)
  ELSE IF Len(info) < 1 \/ ~IsNumber(info[1])
  THEN Thrown("InvalidArgument", <<"Model handle number required">>, <<>>)
  ELSE
    LET call == NativeCall(SymUnloadModel, <<Int32Value(info[1])>>, "void",
                           Runs(SymUnloadModel, ub))
    IN  IF ~call.ran THEN Died(<<call>>) ELSE Returned(Undefined, <<call>>)

----------------------------------------------------------------------------
(* Generate, binding.cc:117-165 *)

DefaultMaxTokens == 256
DefaultTemperature == Float32(0, 7)
DefaultTopP == Float32(0, 9)

\* options.Has(key)
Has(options, key) == key \in DOMAIN options.props

\* options.Get(key)
Get(options, key) == options.props[key]

\* a variant that reads topP from the temperature key
GenerateParams_topPFromTemperature(info) ==
  IF Len(info) > 2 /\ IsObject(info[3])
  THEN LET options == info[3]
       IN  [maxTokens   |-> IF Has(options, "maxTokens")
                            THEN Int32Value(Get(options, "maxTokens"))
                            ELSE DefaultMaxTokens,
            temperature |-> IF Has(options, "temperature")
                            THEN FloatValue(Get(options, "temperature"))
                            ELSE DefaultTemperature,
            topP        |-> IF Has(options, "temperature")
                            THEN FloatValue(Get(options, "temperature"))
                            ELSE DefaultTopP]
  ELSE [maxTokens |-> DefaultMaxTokens, temperature |-> DefaultTemperature,
        topP |-> DefaultTopP]

\* the three parameters handed to the native call
GenerateParams(info) ==
  IF Len(info) > 2 /\ IsObject(info[3])
  THEN LET options == info[3]
       IN  [maxTokens   |-> IF Has(options, "maxTokens")
                            THEN Int32Value(Get(options, "maxTokens"))
                            ELSE DefaultMaxTokens,
            temperature |-> IF Has(options, "temperature")
                            THEN FloatValue(Get(options, "temperature"))
                            ELSE DefaultTemperature,
            topP        |-> IF Has(options, "topP")
                            THEN FloatValue(Get(options, "topP"))
                            ELSE DefaultTopP]
  ELSE [maxTokens |-> DefaultMaxTokens, temperature |-> DefaultTemperature,
        topP |-> DefaultTopP]

GenerateCall(info, ret, ub) ==
  IF fn[SymGenerate] = nullptr
  THEN Thrown("NotInitialized", <<"Library not initialized">>, <<>>)
  ELSE IF Len(info) < 2 \/ ~IsNumber(info[1]) \/ ~IsString(info[2])
  THEN Thrown("InvalidArgument", <<"Usage: generate(handle, prompt, options?)">>, <<>>)
  ELSE
    LET handle == Int32Value(info[1])
        prompt == info[2].str
        params == GenerateParams(info)
        call == NativeCall(SymGenerate,
                           <<handle, prompt, params.maxTokens, params.temperature,
                             params.topP>>,
                           ret, Runs(SymGenerate, ub))
    IN  IF ~call.ran THEN Died(<<call>>)
        ELSE IF ret = NullString
        THEN Thrown("GenerationFailure", <<"Generate returned null">>, <<call>>)
        ELSE CopyAndFree(ret, <<call>>, ub)

----------------------------------------------------------------------------
(* IsAvailable, binding.cc:168-181 *)

IsAvailableCall(ret, ub) ==
  IF fn[SymIsAvailable] # nullptr
  THEN LET call == NativeCall(SymIsAvailable, <<>>, ret, Runs(SymIsAvailable, ub))
       IN  IF ~call.ran THEN Died(<<call>>) ELSE Returned(ret, <<call>>)
  ELSE Returned(apple_arm64, <<>>)

----------------------------------------------------------------------------
(* GetVersion, binding.cc:184-197 *)

FallbackVersion == "0.1.0"

GetVersionCall(ret, ub) ==
  IF fn[SymVersion] # nullptr
  THEN LET call == NativeCall(SymVersion, <<>>, ret, Runs(SymVersion, ub))
       IN  IF ~call.ran THEN Died(<<call>>)
           ELSE IF ret # NullString THEN CopyAndFree(ret, <<call>>, ub)
           ELSE Returned(JSString(FallbackVersion), <<call>>)
  ELSE Returned(JSString(FallbackVersion), <<>>)

----------------------------------------------------------------------------
(* IsInitialized, binding.cc:200-203 *)

IsInitializedCall == Returned(dylib_handle # nullptr, <<>>)

----------------------------------------------------------------------------
(* The arguments and native results explored *)

PathArgs ==
  {<<>>, <<JSInt(1)>>, <<JSString(NoSuchPath)>>} \cup {<<JSString(p)>> : p \in DylibPaths}

ModelIdArgs == {<<>>, <<JSInt(3)>>, <<JSString("good-id")>>, <<JSString("bad-id")>>}

\* int32 values node_mlx_load_model may return
LoadResults == {MinInt32, -1, 0, 3, MaxInt32}

HandleArgs ==
  {<<>>, <<JSString("3")>>, <<JSInt(3)>>, <<JSInt(-1)>>, <<JSNumber(0, 2, 5)>>}

\* the numbers a caller puts under each key: 0, 10.5, -1.5, 2^32 + 7; 0.5, 0.7; 1; 1
OptionValues ==
  [ maxTokens   |-> {JSInt(0), JSNumber(0, 10, 5), JSNumber(0, -2, 5), JSNumber(1, 7, 0)},
    temperature |-> {JSNumber(0, 0, 5), JSNumber(0, 0, 7)},
    topP        |-> {JSInt(1)},
    foo         |-> {JSInt(1)} ]

OptionKeys == DOMAIN OptionValues

\* every options object over those keys and values
OptionObjects ==
  UNION {{JSObject(o) : o \in {f \in [keys -> UNION {OptionValues[k] : k \in keys}] :
                                 \A k \in keys : f[k] \in OptionValues[k]}}
         : keys \in SUBSET OptionKeys}

GenerateArgs ==
  {<<>>, <<JSInt(1)>>, <<JSInt(1), JSInt(2)>>, <<JSString("1"), JSString("hello")>>,
   <<JSInt(1), JSString("hello")>>, <<JSNumber(0, 2, 5), JSString("hello")>>,
   <<JSInt(1), JSString("hello"), JSString("opts")>>}
  \cup {<<JSInt(1), JSString("hello"), o>> : o \in OptionObjects}

----------------------------------------------------------------------------
(* The state machine: one action per exported operation *)

NoCall == [op |-> "none", info |-> <<>>] @@ Returned(Undefined, <<>>)

Observed(op, info, r) == [op |-> op, info |-> info] @@ r

\* the threads that may call into the addon; the globals of binding.cc:7-21 are
\* shared by all of them
Threads == {1, 2}

\* a thread that is not inside Initialize
Idle == [pc |-> "idle", path |-> "", calls |-> 0, result |-> "none"]

NothingSeen == [overlapped |-> FALSE, overwritten |-> FALSE, premature |-> FALSE]

Init ==
  /\ thread = [t \in Threads |-> Idle]
  /\ seen = NothingSeen
  /\ dylib_handle = nullptr
  /\ fn = [s \in Symbols |-> nullptr]
  /\ loaded = <<>>
  /\ nOpens = 0
  /\ allocs = 0
  /\ frees = 0
  /\ apple_arm64 \in BOOLEAN
  /\ crashed = FALSE
  /\ last = NoCall

\* a call that only goes through the function pointers
Forward(op, info, r) ==
  /\ last' = Observed(op, info, r)
  /\ crashed' = (r.outcome = "crash")
  /\ allocs' = allocs + AllocsIn(r)
  /\ frees' = frees + FreesIn(r)
  /\ UNCHANGED <<dylib_handle, fn, loaded, nOpens, apple_arm64, thread, seen>>

Initialize ==
  /\ ~crashed
  /\ \E info \in PathArgs :
       LET a0 == IF Len(info) > 0 THEN info[1] ELSE Undefined
           c == InitializeCall(a0)
       IN  /\ c.opens <= MaxOpens
           /\ dylib_handle' = c.handle
           /\ fn' = c.fn
           /\ loaded' = c.loaded
           /\ nOpens' = c.opens
           /\ last' = Observed("initialize", info, c.r)
           /\ UNCHANGED <<allocs, frees, apple_arm64, crashed, thread, seen>>

IsInitialized ==
  /\ ~crashed
  /\ Forward("isInitialized", <<>>, IsInitializedCall)

LoadModel ==
  /\ ~crashed
  /\ \E info \in ModelIdArgs, ret \in LoadResults, ub \in UBOutcomes :
       Forward("loadModel", info, LoadModelCall(info, ret, ub))

UnloadModel ==
  /\ ~crashed
  /\ \E info \in HandleArgs, ub \in UBOutcomes :
       Forward("unloadModel", info, UnloadModelCall(info, ub))

Generate ==
  /\ ~crashed
  /\ \E info \in GenerateArgs, ret \in StringResults(GenerateTexts),
        ub \in UBOutcomes :
       Forward("generate", info, GenerateCall(info, ret, ub))

IsAvailable ==
  /\ ~crashed
  /\ \E ret \in BOOLEAN, ub \in UBOutcomes :
       Forward("isAvailable", <<>>, IsAvailableCall(ret, ub))

GetVersion ==
  /\ ~crashed
  /\ \E ret \in StringResults(VersionTexts), ub \in UBOutcomes :
       Forward("getVersion", <<>>, GetVersionCall(ret, ub))

Next ==
  \/ Initialize
  \/ IsInitialized
  \/ LoadModel
  \/ UnloadModel
  \/ Generate
  \/ IsAvailable
  \/ GetVersion

Spec == Init /\ [][Next]_vars

----------------------------------------------------------------------------
(* Initialize called from two threads with nothing serializing the calls:      *)
(* binding.cc:24-69 statement by statement. Each step is one statement's access *)
(* to the shared globals; the six lookups of lines 49-54 are taken as one step. *)

\* the paths the racing callers pass: no string, no such file, a complete library,
\* a library without node_mlx_load_model
RacePathArgs ==
  {<<JSInt(1)>>, <<JSString(NoSuchPath)>>, <<JSString("full")>>, <<JSString("no_load")>>}

\* thread t returns from Initialize
Return(t, result) ==
  [thread EXCEPT ![t] = [pc |-> "idle", path |-> "", calls |-> @.calls, result |-> result]]

\* thread t moves on to the statement named pc
Goto(t, pc) == [thread EXCEPT ![t].pc = pc]

\* another thread has assigned dylib_handle (line 41) and not yet tested the
\* three mandatory pointers (line 56)
OtherUnvalidated(t) ==
  \E u \in Threads \ {t} : thread[u].pc \in {"opened", "resolve", "validate"}

\* dlsym and dlclose on the handle of a mapped image work; on a null or closed
\* handle they fail or bring the process down
LoaderOutcomes ==
  IF dylib_handle \in DOMAIN loaded THEN {"works"} ELSE {"fails", "crash"}

\* a variant of dlclose that leaves the image mapped
dlclose_keepsMapped(images, h) == images

\* dlclose(h): the image is unmapped
dlclose(images, h) == [i \in DOMAIN images \ {h} |-> images[i]]

\* lines 27-39: the test of dylib_handle, then the argument
RaceCheck ==
  /\ ~crashed
  /\ \E t \in Threads, info \in RacePathArgs :
       /\ thread[t].pc = "idle"
       /\ thread[t].calls < MaxRaceCalls
       /\ LET entered == [thread EXCEPT ![t].calls = @ + 1]
              t2 == [entered EXCEPT ![t].result = "none"]
          IN  thread' =
                IF AlreadyLoaded
                THEN [t2 EXCEPT ![t].result = "ok"]
                ELSE IF ~IsString(info[1])
                THEN [t2 EXCEPT ![t].result = "InvalidArgument"]
                ELSE [t2 EXCEPT ![t].pc = "dlopen", ![t].path = info[1].str]
       /\ seen' = [seen EXCEPT
                     !.overlapped = @ \/ \E u \in Threads \ {t} : thread[u].pc # "idle",
                     !.premature = @ \/ (AlreadyLoaded /\ OtherUnvalidated(t))]
  /\ UNCHANGED <<dylib_handle, fn, loaded, nOpens, allocs, frees, apple_arm64, crashed, last>>

\* line 41: dylib_handle = dlopen(path)
RaceOpen ==
  /\ ~crashed
  /\ \E t \in Threads :
       /\ thread[t].pc = "dlopen"
       /\ LET path == thread[t].path
              found == path \in DylibPaths
              image == nOpens + 1
          IN  /\ dylib_handle' = IF found THEN image ELSE nullptr
              /\ loaded' = IF found THEN (image :> Dylibs[path]) @@ loaded ELSE loaded
              /\ nOpens' = IF found THEN image ELSE nOpens
       /\ seen' = [seen EXCEPT !.overwritten = @ \/ dylib_handle \in DOMAIN loaded]
       /\ thread' = [thread EXCEPT ![t].pc = "opened", ![t].path = ""]
  /\ UNCHANGED <<fn, allocs, frees, apple_arm64, crashed, last>>

\* lines 42-46: if (!dylib_handle) throw
RaceTestOpened ==
  /\ ~crashed
  /\ \E t \in Threads :
       /\ thread[t].pc = "opened"
       /\ thread' = IF dylib_handle = nullptr
                    THEN Return(t, "LoadFailure")
                    ELSE Goto(t, "resolve")
  /\ UNCHANGED <<dylib_handle, fn, loaded, nOpens, allocs, frees, apple_arm64, crashed,
                 last, seen>>

\* lines 49-54: the six pointers are set from dlsym(dylib_handle, name)
RaceResolve ==
  /\ ~crashed
  /\ \E t \in Threads, o \in LoaderOutcomes :
       /\ thread[t].pc = "resolve"
       /\ crashed' = (o = "crash")
       /\ fn' = IF o = "crash" THEN fn
                ELSE IF o = "works" THEN ResolvedTable(dylib_handle, loaded[dylib_handle])
                ELSE [s \in Symbols |-> nullptr]
       /\ thread' = IF o = "crash" THEN thread ELSE Goto(t, "validate")
  /\ UNCHANGED <<dylib_handle, loaded, nOpens, allocs, frees, apple_arm64, last, seen>>

\* lines 56-61 and 68: the test of the three mandatory pointers
RaceValidate ==
  /\ ~crashed
  /\ \E t \in Threads :
       /\ thread[t].pc = "validate"
       /\ thread' = IF MissingNames(fn) # <<>> THEN Goto(t, "close") ELSE Return(t, "ok")
       /\ seen' = [seen EXCEPT
                     !.premature = @ \/ (MissingNames(fn) = <<>> /\ OtherUnvalidated(t))]
  /\ UNCHANGED <<dylib_handle, fn, loaded, nOpens, allocs, frees, apple_arm64, crashed, last>>

\* line 63: dlclose(dylib_handle)
RaceClose ==
  /\ ~crashed
  /\ \E t \in Threads, o \in LoaderOutcomes :
       /\ thread[t].pc = "close"
       /\ crashed' = (o = "crash")
       /\ loaded' = IF o = "works" THEN dlclose(loaded, dylib_handle) ELSE loaded
       /\ thread' = IF o = "crash" THEN thread ELSE Goto(t, "reset")
  /\ UNCHANGED <<dylib_handle, fn, nOpens, allocs, frees, apple_arm64, last, seen>>

\* lines 64-65: dylib_handle = nullptr; return
RaceReset ==
  /\ ~crashed
  /\ \E t \in Threads :
       /\ thread[t].pc = "reset"
       /\ dylib_handle' = nullptr
       /\ seen' = [seen EXCEPT !.overwritten = @ \/ dylib_handle \in DOMAIN loaded]
       /\ thread' = Return(t, "MissingSymbols")
  /\ UNCHANGED <<fn, loaded, nOpens, allocs, frees, apple_arm64, crashed, last>>

RaceNext ==
  \/ RaceCheck
  \/ RaceOpen
  \/ RaceTestOpened
  \/ RaceResolve
  \/ RaceValidate
  \/ RaceClose
  \/ RaceReset

SpecRace == Init /\ [][RaceNext]_vars

----------------------------------------------------------------------------
(* Vocabulary of the properties *)

\* the last call was op and the process survived or not, as recorded
LastWas(op) == last.op = op

\* the log entries of the last call that are calls through a function pointer
NativeCallsOfLast == {k \in 1..Len(last.calls) : last.calls[k].ev = "call"}

\* a log entry is a call through a null pointer or into an image that has been closed
BadCall(e) == e.ev = "call" /\ (e.image = nullptr \/ ~e.mapped)

\* the last call was given a numeric first argument
NumericFirstArg == Len(last.info) >= 1 /\ IsNumber(last.info[1])

\* the last call was given a string first argument
StringFirstArg == Len(last.info) >= 1 /\ IsString(last.info[1])

\* the library now loaded exports sym
LoadedExports(sym) == dylib_handle \in DOMAIN loaded /\ sym \in loaded[dylib_handle]

----------------------------------------------------------------------------
(* C1 *)

\* C1: while no initialize has succeeded (the library handle is null), each of
\* loadModel, unloadModel and generate fails with NotInitialized and makes no call
\* through any function pointer.
C1_ForwardingBeforeInitialize ==
  (last.op \in {"loadModel", "unloadModel", "generate"} /\ dylib_handle = nullptr)
    => (last.outcome = "throw" /\ last.error = "NotInitialized" /\ last.calls = <<>>)

----------------------------------------------------------------------------
(* C2 *)

\* C2: an initialize that fails for missing mandatory symbols leaves no partial state:
\* the handle is null, the library it opened is closed, and no function pointer still
\* points into the closed library.
C2_MissingSymbolsLeavesNothing ==
  (LastWas("initialize") /\ last.error = "MissingSymbols")
    => /\ dylib_handle = nullptr
       /\ nOpens \notin DOMAIN loaded
       /\ \A s \in Symbols : ~Dangling(s)

----------------------------------------------------------------------------
(* C3 *)

\* C3: with a library loaded that does not export node_mlx_unload_model, unloadModel
\* with a numeric handle returns normally and makes no native call.
C3_UnloadWithoutSymbolIsNoOp ==
  (LastWas("unloadModel") /\ NumericFirstArg
     /\ dylib_handle # nullptr /\ ~LoadedExports(SymUnloadModel))
    => (last.outcome = "ok" /\ last.calls = <<>>)

----------------------------------------------------------------------------
(* C4 *)

\* the log of the last call shows p read, then released exactly once, and never read
\* after the release
CopiedThenFreedOnce(p) ==
  LET reads == {k \in 1..Len(last.calls) :
                  last.calls[k].ev = "read" /\ last.calls[k].ptr = p.ptr}
      freed == {k \in CallsOf(last, SymFreeString) :
                  last.calls[k].ran /\ last.calls[k].args = <<p.ptr>>}
  IN  /\ reads # {}
      /\ Cardinality(freed) = 1
      /\ \A r \in reads, f \in freed : r < f

\* C4: every generate call that enters the native generate entry point either gets a
\* string, copies it, releases it exactly once, never reads it afterwards and returns
\* the copy, or gets null, fails with GenerationFailure and releases nothing; so
\* every string handed out has been released.
C4_GenerateStringFreedOnce ==
  (LastWas("generate") /\ \E k \in CallsOf(last, SymGenerate) : last.calls[k].ran)
    => LET k == CHOOSE k \in CallsOf(last, SymGenerate) : last.calls[k].ran
           ret == last.calls[k].ret
       IN  /\ Cardinality(CallsOf(last, SymGenerate)) = 1
           /\ IF ret # NullString
              THEN /\ last.outcome = "ok"
                   /\ last.value = JSString(ret.text)
                   /\ CopiedThenFreedOnce(ret)
                   /\ allocs = frees
              ELSE /\ last.outcome = "throw"
                   /\ last.error = "GenerationFailure"
                   /\ CallsOf(last, SymFreeString) = {}

----------------------------------------------------------------------------
(* C5 *)

\* C5: once a library is loaded, every initialize call, whatever its argument, returns
\* success at once, opens nothing, and leaves the handle, the six pointers and the
\* number of library opens as they were.
C5_InitializeIdempotent ==
  [][(dylib_handle # nullptr /\ last'.op = "initialize")
       => /\ last'.outcome = "ok"
          /\ last'.value = TRUE
          /\ last'.calls = <<>>
          /\ nOpens' = nOpens
          /\ UNCHANGED <<dylib_handle, fn, loaded>>]_vars

\* a repeated initialize, given a path that cannot even be opened, reported success
C5_Witness ==
  /\ LastWas("initialize")
  /\ dylib_handle # nullptr
  /\ last.info = <<JSString(NoSuchPath)>>
  /\ last.outcome = "ok"
  /\ last.calls = <<>>

----------------------------------------------------------------------------
(* C6 *)

\* C6: while no library is loaded, initialize with a path that cannot be opened fails
\* with LoadFailure, one with a library lacking a mandatory symbol fails with
\* MissingSymbols, both leave isInitialized() false, and one with a library exporting
\* the three mandatory symbols succeeds and makes isInitialized() true, however many
\* attempts failed before.
C6_FailedInitializeAllowsRetry ==
  [][/\ (last'.op = "initialize" /\ dylib_handle = nullptr
           /\ Len(last'.info) >= 1 /\ IsString(last'.info[1]))
       => LET path == last'.info[1].str
          IN  IF path \notin DylibPaths
              THEN last'.error = "LoadFailure" /\ dylib_handle' = nullptr
              ELSE IF {SymLoadModel, SymGenerate, SymFreeString} \subseteq Dylibs[path]
              THEN last'.outcome = "ok" /\ dylib_handle' # nullptr
              ELSE last'.error = "MissingSymbols" /\ dylib_handle' = nullptr
     /\ last'.op = "isInitialized" => last'.value = (dylib_handle' # nullptr)]_vars

\* an initialize succeeded after an earlier one had opened and closed a library
C6_Witness ==
  /\ LastWas("initialize")
  /\ last.outcome = "ok"
  /\ nOpens >= 2
  /\ dylib_handle = nOpens

----------------------------------------------------------------------------
(* C7 *)

\* C7: getVersion never fails and never calls through a null pointer or into a closed
\* library; it returns the copied, once-released native string when the loaded
\* library's version entry point returns one, and "0.1.0" with no release otherwise.
C7_GetVersionNeverFails ==
  LastWas("getVersion")
    => /\ last.outcome = "ok"
       /\ \A k \in NativeCallsOfLast : ~BadCall(last.calls[k])
       /\ LET got == {k \in CallsOf(last, SymVersion) :
                        last.calls[k].ran /\ last.calls[k].ret # NullString}
          IN  IF LoadedExports(SymVersion) /\ got # {}
              THEN \A k \in got : /\ last.value = JSString(last.calls[k].ret.text)
                                  /\ CopiedThenFreedOnce(last.calls[k].ret)
              ELSE /\ last.value = JSString("0.1.0")
                   /\ CallsOf(last, SymFreeString) = {}

----------------------------------------------------------------------------
(* C8 *)

\* C8: isAvailable makes no native call and returns the static platform check whenever
\* no library is loaded or the loaded one lacks the is-available symbol; it calls the
\* native entry point only when that belongs to the library now loaded.
C8_IsAvailableIndependent ==
  LastWas("isAvailable")
    => IF LoadedExports(SymIsAvailable)
       THEN \A k \in NativeCallsOfLast :
               last.calls[k].sym = SymIsAvailable /\ last.calls[k].image = dylib_handle
       ELSE /\ last.calls = <<>>
            /\ last.outcome = "ok"
            /\ last.value = apple_arm64

----------------------------------------------------------------------------
(* C9 *)

\* the last generate call was given an options object
HasOptions == Len(last.info) > 2 /\ IsObject(last.info[3])

\* the options object of the last generate call holds key
Supplies(key) == HasOptions /\ key \in DOMAIN last.info[3].props

Supplied(key) == last.info[3].props[key]

\* the host number is exactly the int32 i
SameInt(v, i) == v.wraps = 0 /\ v.frac = 0 /\ v.int = i

\* the host number is f, to the precision of a 32-bit float
SameFloat(v, f) == v.wraps = 0 /\ f = [int |-> v.int, frac |-> v.frac]

\* C9 as stated: the triple forwarded to the native generate call holds, for each
\* recognized key, the supplied value itself when the key is present and the default
\* (256, 0.7, 0.9) when it is absent.
C9_SuppliedValuesForwarded ==
  LastWas("generate")
    => \A k \in CallsOf(last, SymGenerate) :
         LET a == last.calls[k].args
         IN  /\ IF Supplies("maxTokens") THEN SameInt(Supplied("maxTokens"), a[3])
                ELSE a[3] = 256
             /\ IF Supplies("temperature") THEN SameFloat(Supplied("temperature"), a[4])
                ELSE a[4] = [int |-> 0, frac |-> 7]
             /\ IF Supplies("topP") THEN SameFloat(Supplied("topP"), a[5])
                ELSE a[5] = [int |-> 0, frac |-> 9]

\* the int32 a host number becomes: its fraction dropped toward zero, then its low
\* 32 bits
TruncatedToInt32(v) ==
  IF v.frac > 0 /\ (v.wraps < 0 \/ (v.wraps = 0 /\ v.int < 0))
  THEN (IF v.int = 2147483647 THEN -2147483647 - 1 ELSE v.int + 1)
  ELSE v.int

\* C9 amended: for each recognized key present with a numeric value the forwarded
\* parameter is that value converted to the native type (maxTokens truncated toward
\* zero and reduced to its low 32 bits, temperature and topP narrowed to float), and
\* the default (256, 0.7, 0.9) when the key is absent; other keys change nothing and
\* a call without an options object forwards the three defaults.
C9_ConvertedValuesForwarded ==
  LastWas("generate")
    => \A k \in CallsOf(last, SymGenerate) :
         LET a == last.calls[k].args
         IN  /\ IF Supplies("maxTokens") THEN a[3] = TruncatedToInt32(Supplied("maxTokens"))
                ELSE a[3] = 256
             /\ IF Supplies("temperature") THEN SameFloat(Supplied("temperature"), a[4])
                ELSE a[4] = [int |-> 0, frac |-> 7]
             /\ IF Supplies("topP") THEN SameFloat(Supplied("topP"), a[5])
                ELSE a[5] = [int |-> 0, frac |-> 9]

\* generate was given {foo: 1, maxTokens: 10.5} and the native call got 10, 0.7, 0.9
C9_Witness ==
  /\ LastWas("generate")
  /\ HasOptions
  /\ DOMAIN last.info[3].props = {"foo", "maxTokens"}
  /\ Supplied("maxTokens") = JSNumber(0, 10, 5)
  /\ \E k \in CallsOf(last, SymGenerate) :
       /\ last.calls[k].ran
       /\ last.calls[k].args[3] = 10
       /\ last.calls[k].args[4] = [int |-> 0, frac |-> 7]
       /\ last.calls[k].args[5] = [int |-> 0, frac |-> 9]

----------------------------------------------------------------------------
(* C10 *)

\* C10: with a library loaded, loadModel(id) makes exactly one call, to the load entry
\* point of that library with id; a negative result fails with ModelLoadRejected
\* naming id, a positive result h is returned as h, and the handle and the six
\* pointers are left as they were.
C10_LoadModelForwardsOnce ==
  [][(last'.op = "loadModel" /\ dylib_handle # nullptr
        /\ Len(last'.info) >= 1 /\ IsString(last'.info[1]))
       => LET id == last'.info[1].str
              c == last'.calls
          IN  /\ Len(c) = 1
              /\ c[1].ev = "call"
              /\ c[1].sym = SymLoadModel
              /\ c[1].image = dylib_handle
              /\ c[1].ran
              /\ c[1].args = <<id>>
              /\ c[1].ret < 0 =>
                   /\ last'.outcome = "throw"
                   /\ last'.error = "ModelLoadRejected"
                   /\ \E j \in 1..Len(last'.detail) : last'.detail[j] = id
              /\ c[1].ret > 0 =>
                   /\ last'.outcome = "ok"
                   /\ last'.value = [type |-> "number", wraps |-> 0, int |-> c[1].ret,
                                     frac |-> 0]
              /\ UNCHANGED <<dylib_handle, fn, loaded, nOpens>>]_vars

\* loadModel("good-id") returned the native handle 3
C10_Witness ==
  /\ LastWas("loadModel")
  /\ dylib_handle # nullptr
  /\ last.info = <<JSString("good-id")>>
  /\ last.outcome = "ok"
  /\ last.value = JSInt(3)

----------------------------------------------------------------------------
(* C11 *)

\* C11: once an initialize has succeeded (the handle is non-null), every later
\* operation, whether it succeeds or fails, leaves the handle and the six pointers
\* exactly as they are, and isInitialized() answers true.
C11_TableImmutableAfterSuccess ==
  [][dylib_handle # nullptr
       => /\ dylib_handle' = dylib_handle
          /\ fn' = fn
          /\ last'.op = "isInitialized" => last'.value = TRUE]_vars

\* with a library loaded, a generate call has failed and every pointer is still null
\* or a pointer into that library
C11_Witness ==
  /\ dylib_handle # nullptr
  /\ LastWas("generate")
  /\ last.outcome = "throw"
  /\ last.error = "GenerationFailure"
  /\ \A s \in Symbols : fn[s] \in {nullptr, dylib_handle}

----------------------------------------------------------------------------
(* C12 *)

\* while a library is loaded the three mandatory pointers are set, and each of the six
\* pointers is set exactly when the loaded library exports its symbol
InitializedTableMatches ==
  dylib_handle # nullptr
    => /\ dylib_handle \in DOMAIN loaded
       /\ \A s \in {SymLoadModel, SymGenerate, SymFreeString} : fn[s] # nullptr
       /\ \A s \in Symbols : fn[s] # nullptr <=> s \in loaded[dylib_handle]

\* C12: between operations, if isInitialized() is true the three mandatory pointers
\* are set and each of the six is set exactly when the loaded library exports its
\* symbol; and no pointer is one obtained from a library that an earlier, failed
\* initialize opened and closed.
C12_TableMatchesLoadedLibrary ==
  /\ InitializedTableMatches
  /\ \A s \in Symbols : fn[s] \in {nullptr, dylib_handle}

----------------------------------------------------------------------------
(* C13 *)

\* C13: the harm of unserialized Initialize calls comes from the race and from
\* nothing else. As long as no call began while another was in progress, no open
\* handle is overwritten without being closed, no call returns success while another
\* thread has set the handle and not yet validated it, the only mapped image is the
\* one dylib_handle holds, and the loader is never given a stale handle; with two
\* overlapping calls each of these is reachable (C13_Witness).
C13_HarmOnlyWhenCallsOverlap ==
  ~seen.overlapped
    => /\ ~seen.overwritten
       /\ ~seen.premature
       /\ DOMAIN loaded \subseteq {dylib_handle}
       /\ ~crashed

\* both threads passed the test of line 27 and both opened a library: two images are
\* mapped, one handle was overwritten without dlclose, and a call returned success
\* while the other thread had set the handle and not yet validated the pointers
C13_Witness ==
  /\ seen.overlapped
  /\ seen.overwritten
  /\ seen.premature
  /\ nOpens >= 2
  /\ Cardinality(DOMAIN loaded) >= 2
  /\ \E t \in Threads : thread[t].result = "ok"

----------------------------------------------------------------------------
(* C14 *)

\* C14: every successful return of loadModel yields a valid model handle, a number
\* greater than 0, whatever int32 the native load entry point returned.
C14_LoadModelReturnsValidHandle ==
  (LastWas("loadModel") /\ last.outcome = "ok")
    => (IsNumber(last.value) /\ last.value.int > 0)

----------------------------------------------------------------------------
(* C15 *)

\* the last call lacked a required argument or gave it the wrong type
BadArguments ==
  \/ LastWas("loadModel") /\ ~StringFirstArg
  \/ LastWas("unloadModel") /\ ~NumericFirstArg
  \/ LastWas("generate")
       /\ ~(Len(last.info) >= 2 /\ IsNumber(last.info[1]) /\ IsString(last.info[2]))

\* C15: with a library loaded, loadModel without a string id, unloadModel without a
\* numeric handle and generate without a numeric handle and a string prompt fail with
\* InvalidArgument and make no native call; initialize without a string path while
\* nothing is loaded fails, opens nothing and leaves isInitialized() false.
C15_BadArgumentsRejected ==
  /\ (dylib_handle # nullptr /\ BadArguments)
       => (last.outcome = "throw" /\ last.error = "InvalidArgument" /\ last.calls = <<>>)
  /\ (LastWas("initialize") /\ ~StringFirstArg /\ last.outcome # "ok")
       => (last.outcome = "throw" /\ last.calls = <<>> /\ dylib_handle = nullptr)

----------------------------------------------------------------------------
(* C16 *)

\* C16 as stated: whenever the unload pointer is set, unloadModel(h) with a numeric h
\* makes exactly one call through it, with that same h, and raises no error.
C16_UnloadForwardsSameHandle ==
  (LastWas("unloadModel") /\ NumericFirstArg /\ fn[SymUnloadModel] # nullptr)
    => /\ Len(last.calls) = 1
       /\ last.calls[1].ev = "call"
       /\ last.calls[1].sym = SymUnloadModel
       /\ Len(last.calls[1].args) = 1
       /\ SameInt(last.info[1], last.calls[1].args[1])
       /\ last.outcome # "throw"

\* C16 amended: whenever the unload pointer is set, unloadModel(h) with a numeric h
\* makes exactly one call through it, with h converted to int32 (truncated toward
\* zero, low 32 bits), whatever h is and whatever was unloaded before, and raises no
\* error.
C16_UnloadForwardsConvertedHandle ==
  (LastWas("unloadModel") /\ NumericFirstArg /\ fn[SymUnloadModel] # nullptr)
    => /\ Len(last.calls) = 1
       /\ last.calls[1].ev = "call"
       /\ last.calls[1].sym = SymUnloadModel
       /\ last.calls[1].args = <<TruncatedToInt32(last.info[1])>>
       /\ last.outcome # "throw"
       /\ last.calls[1].ran => last.outcome = "ok"

\* unloadModel(-1), a handle loadModel never returns, was forwarded as -1
C16_Witness ==
  /\ LastWas("unloadModel")
  /\ dylib_handle # nullptr
  /\ last.info = <<JSInt(-1)>>
  /\ last.outcome = "ok"
  /\ Len(last.calls) = 1
  /\ last.calls[1].ran
  /\ last.calls[1].args = <<-1>>

----------------------------------------------------------------------------
(* C17 *)

\* the library that the last initialize opened, if it opened one
OpenedByLast ==
  {k \in 1..Len(last.calls) : last.calls[k].ev = "dlopen" /\ last.calls[k].image # nullptr}

\* C17: when initialize opens a library, it fails with MissingSymbols exactly when a
\* mandatory symbol is not exported, and the error then names each missing mandatory
\* symbol once and nothing else; missing optional symbols are never named and never
\* make it fail.
C17_MissingSymbolsNamedExactly ==
  LastWas("initialize")
    => \A k \in OpenedByLast :
         LET exports == Dylibs[last.calls[k].path]
             missing == {SymLoadModel, SymGenerate, SymFreeString} \ exports
             named == {last.detail[j] : j \in 2..Len(last.detail)}
         IN  IF missing # {}
             THEN /\ last.error = "MissingSymbols"
                  /\ named = missing
                  /\ Len(last.detail) = 1 + Cardinality(missing)
             ELSE last.outcome = "ok"

\* a library with only the free-string and version symbols was refused, naming the
\* load and generate symbols and neither of the three optional ones it also lacks
C17_Witness ==
  /\ LastWas("initialize")
  /\ last.info = <<JSString("only_free")>>
  /\ last.error = "MissingSymbols"
  /\ last.detail = <<"Failed to load functions: ", SymLoadModel, SymGenerate>>

----------------------------------------------------------------------------
(* C18 *)

\* C18: the maxTokens value that reaches the native generate entry point is always a
\* positive integer.
C18_MaxTokensPositive ==
  LastWas("generate")
    => \A k \in CallsOf(last, SymGenerate) : last.calls[k].args[3] > 0

====
